---- MODULE Spec2Model ----
(***************************************************************************)
(* Model of model-sentinel's verification / storage engine:                *)
(*   target/base.py, target/local.py, target/hf.py,                        *)
(*   verify/verify.py, verify/metadata.py, verify/session.py,              *)
(*   verify/storage.py.                                                    *)
(*                                                                         *)
(* Conventions.                                                            *)
(*  - Byte strings are sequences of tokens ("a", "b", ".py", "x", ...).    *)
(*    Every token stands for a fixed non-empty byte string and the token   *)
(*    set is uniquely decodable, so two token sequences are equal exactly  *)
(*    when the byte strings are.                                           *)
(*  - SHA-256 is taken collision-free: a digest is the tagged input        *)
(*    stream, so two digests are equal exactly when the inputs are.        *)
(*  - Python None is the sequence <<"None">>; a missing dict key is        *)
(*    kind "absent" / 0 where noted.                                       *)
(*  - One verification run is one action: the operator's answers, the      *)
(*    outcomes of the downloads and the enumeration order of the file      *)
(*    system are the action's inputs.  Every timestamp read in a run       *)
(*    yields the value of the clock  now,  which advances once per run.    *)
(*  - target/hf.py and target/local.py address the model by its key        *)
(*    (get_model_storage_dir(key, path), _verify_files_workflow(key, ...), *)
(*    update_model_hash(key, ...)); the key is resolved to the model       *)
(*    directory by TargetBase.get_model_directory_path.                    *)
(*  - Faults are inputs too: a console run can find save_run_metadata      *)
(*    raising (write_fails) and can be ended at a prompt (Interrupt).      *)
(*    MetaSpec and WriteSpec look inside one call: the metadata compiler   *)
(*    on drawn documents, and save_metadata step by step on the file.      *)
(***************************************************************************)
EXTENDS Integers, Sequences, FiniteSets, TLC

(***************************************************************************)
(* Bounds                                                                  *)
(***************************************************************************)
\* number of distinct contents a file can take
MaxVersion == 2
\* number of steps (clock ticks) explored
MaxClock == 3
\* number of hub revisions explored
MaxRev == 2
\* longest file content, in tokens, of the fingerprint specification
MaxLen == 2
\* number of chunks json.dump writes for one metadata document
MaxChunks == 3

(***************************************************************************)
(* Values                                                                  *)
(***************************************************************************)
None == <<"None">>

NoTime == 0

\* the candidate file names ("*.py" below the model root / hub siblings)
PyNames == {"a.py", "b.py"}

\* a hub sibling that is not a .py file
OtherSibling == "w.bin"

\* str(rel_path).encode(): the bytes of a file name
Encode(name) ==
    CASE name = "a.py" -> <<"a", ".py">>
      [] name = "b.py" -> <<"b", ".py">>
      [] OTHER -> <<"w", ".bin">>

\* rfilename.endswith(".py")
EndsWithPy(name) ==
    LET e == Encode(name) IN e[Len(e)] = ".py"

\* order of the first byte of every token ('.' < 'a' < 'b' < 'w' < 'x' ...)
ByteRank(t) ==
    CASE t = ".py" -> 1
      [] t = ".bin" -> 1
      [] t = "a" -> 2
      [] t = "b" -> 3
      [] t = "w" -> 4
      [] t = "x" -> 5
      [] t = "y" -> 6
      [] t = "z" -> 7
      [] OTHER -> 8

RECURSIVE BytesLess(_, _)
\* lexicographic order of two byte strings (Python's str / Path ordering)
BytesLess(s, t) ==
    IF s = <<>> THEN t # <<>>
    ELSE IF t = <<>> THEN FALSE
    ELSE IF ByteRank(Head(s)) # ByteRank(Head(t))
         THEN ByteRank(Head(s)) < ByteRank(Head(t))
         ELSE BytesLess(Tail(s), Tail(t))

NameLess(a, b) == BytesLess(Encode(a), Encode(b))

RECURSIVE Sorted(_)
\* sorted(names): the names of a set in ascending order
Sorted(S) ==
    IF S = {} THEN <<>>
    ELSE LET m == CHOOSE x \in S : \A y \in S \ {x} : NameLess(x, y)
         IN <<m>> \o Sorted(S \ {m})

VersionToken == <<"x", "y", "z", "q">>

\* the bytes of version v of a file (0: the file does not exist)
ContentOf(v) == <<VersionToken[v]>>

Range(s) == {s[i] : i \in 1..Len(s)}

\* all orders in which the file system can enumerate a set of names
Perms(S) ==
    {p \in [1..Cardinality(S) -> S] : Range(p) = S}

(***************************************************************************)
(* Fingerprint engine                                                      *)
(***************************************************************************)
\* hashlib.sha256 over a byte stream, hexdigest()
Sha256(stream) == <<"sha256">> \o stream

\* TargetBase._calculate_file_hash / StorageManager.calculate_file_hash
calculate_file_hash(content) == Sha256(content)

RECURSIVE HashStream(_, _)
\* the bytes fed to the hash object for the paths of order, in that order:
\* each path's bytes immediately followed by the file's bytes
HashStream(dir, order) ==
    IF order = <<>> THEN <<>>
    ELSE Encode(Head(order)) \o dir[Head(order)] \o HashStream(dir, Tail(order))

\* _calculate_directory_hash that hashes the files in the order rglob
\* yields them
calculate_directory_hash_from_Unsorted(dir, enumeration) ==
    Sha256(HashStream(dir, enumeration))

\* TargetBase._calculate_directory_hash / StorageManager.calculate_directory_hash
\* on the paths as rglob(pattern) enumerates them: the paths are sorted, then
\* hashed.  dir: function from the matching relative paths to their bytes
calculate_directory_hash_from(dir, enumeration) ==
    Sha256(HashStream(dir, Sorted(Range(enumeration))))

\* the directory hash, which no enumeration order can change
calculate_directory_hash(dir) ==
    calculate_directory_hash_from(dir, Sorted(DOMAIN dir))

\* the first 8 hex characters of a digest
Hash8(digest) == <<"h8">> \o digest

(***************************************************************************)
(* Metadata documents (verify/metadata.py, verify/storage.py)              *)
(***************************************************************************)
\* the value of metadata.get("files") when the key is missing
NoFiles == [kind |-> "absent", items |-> <<>>]

\* StorageManager.load_metadata's document for a model without metadata.json:
\* model_hash and last_verified None, approved_files an empty list, no other
\* key (schema_version 0, overall_status "" and files absent: key missing)
DefaultMetadata ==
    [schema_version |-> 0, run_timestamp |-> NoTime,
     model_hash |-> None, last_verified |-> NoTime,
     overall_status |-> "", summary |-> [total |-> 0, ok |-> 0, ng |-> 0],
     files |-> NoFiles, approved_files |-> [kind |-> "list", items |-> <<>>]]

NoMap == [n \in {} |-> [hash |-> None, size |-> 0, verified_at |-> NoTime]]

RECURSIVE MapFromList(_, _)
\* approved_map_from_existing, list branch: items with status "ok", by path,
\* a later item replacing an earlier one with the same path
MapFromList(items, acc) ==
    IF items = <<>> THEN acc
    ELSE LET item == Head(items)
             entry == [hash |-> item.hash, size |-> item.size,
                       verified_at |-> item.verified_at]
         IN MapFromList(Tail(items),
                        IF item.status = "ok"
                        THEN (item.path :> entry) @@ acc
                        ELSE acc)

RECURSIVE MapFromDict(_, _)
\* approved_map_from_existing, legacy dict branch: every key is taken
MapFromDict(items, acc) ==
    IF items = <<>> THEN acc
    ELSE LET item == Head(items)
             entry == [hash |-> item.hash, size |-> item.size,
                       verified_at |-> item.verified_at]
         IN MapFromDict(Tail(items), (item.path :> entry) @@ acc)

\* approved_map_from_existing that reads only the legacy dict shape
approved_map_from_existing_IgnoresList(existing_files) ==
    IF existing_files.kind = "dict" THEN MapFromDict(existing_files.items, NoMap)
    ELSE NoMap

\* approved_map_from_existing that reads only the list shape
approved_map_from_existing_IgnoresDict(existing_files) ==
    IF existing_files.kind = "list" THEN MapFromList(existing_files.items, NoMap)
    ELSE NoMap

approved_map_from_existing(existing_files) ==
    IF existing_files.kind = "dict" THEN MapFromDict(existing_files.items, NoMap)
    ELSE IF existing_files.kind = "list" THEN MapFromList(existing_files.items, NoMap)
    ELSE NoMap

RECURSIVE ListFromPaths(_, _)
ListFromPaths(approved_map, paths) ==
    IF paths = <<>> THEN <<>>
    ELSE LET path == Head(paths)
             rec == approved_map[path]
         IN <<[path |-> path, size |-> rec.size, hash |-> rec.hash,
               status |-> "ok", verified_at |-> rec.verified_at]>>
            \o ListFromPaths(approved_map, Tail(paths))

files_list_from_map(approved_map) ==
    ListFromPaths(approved_map, Sorted(DOMAIN approved_map))

build_summary_and_overall(total, ok_count, ng_count) ==
    [summary |-> [total |-> total, ok |-> ok_count, ng |-> ng_count],
     overall |-> IF ng_count = 0 THEN "ok"
                 ELSE IF ok_count = 0 THEN "ng"
                 ELSE "mixed"]

RECURSIVE UpsertSession_NoApprovalCheck(_, _, _)
\* UpsertSession without the "if sf.get('approved')" test: every session
\* file is upserted
UpsertSession_NoApprovalCheck(session_files, acc, current_timestamp) ==
    IF session_files = <<>> THEN acc
    ELSE LET sf == Head(session_files)
         IN UpsertSession_NoApprovalCheck(Tail(session_files),
              [acc EXCEPT !.ok = @ + 1,
                   !.map = (sf.filename :>
                              [hash |-> sf.hash, size |-> Len(sf.content),
                               verified_at |-> current_timestamp]) @@ @],
              current_timestamp)

RECURSIVE UpsertSession_FirstWins(_, _, _)
\* UpsertSession in which a path that already has a record keeps it
UpsertSession_FirstWins(session_files, acc, current_timestamp) ==
    IF session_files = <<>> THEN acc
    ELSE LET sf == Head(session_files)
         IN UpsertSession_FirstWins(Tail(session_files),
              IF sf.approved
              THEN [acc EXCEPT !.ok = @ + 1,
                        !.map = @ @@ (sf.filename :>
                                   [hash |-> sf.hash, size |-> Len(sf.content),
                                    verified_at |-> current_timestamp])]
              ELSE [acc EXCEPT !.ng = @ + 1],
              current_timestamp)

RECURSIVE UpsertSession(_, _, _)
\* compute_run_metadata's loop over the session: an approved session file
\* is upserted by filename, a rejected one only counted
UpsertSession(session_files, acc, current_timestamp) ==
    IF session_files = <<>> THEN acc
    ELSE LET sf == Head(session_files)
         IN UpsertSession(Tail(session_files),
              IF sf.approved
              THEN [acc EXCEPT !.ok = @ + 1,
                        !.map = (sf.filename :>
                                   [hash |-> sf.hash, size |-> Len(sf.content),
                                    verified_at |-> current_timestamp]) @@ @]
              ELSE [acc EXCEPT !.ng = @ + 1],
              current_timestamp)

\* compute_run_metadata that stamps last_verified with the run's timestamp
compute_run_metadata_StampsLastVerified(existing_metadata, session_files, current_timestamp) ==
    LET approved_map == approved_map_from_existing(existing_metadata.files)
        acc == UpsertSession(session_files,
                             [map |-> approved_map, ok |-> 0, ng |-> 0],
                             current_timestamp)
        so == build_summary_and_overall(Len(session_files), acc.ok, acc.ng)
    IN [schema_version |-> 1,
        run_timestamp |-> current_timestamp,
        model_hash |-> existing_metadata.model_hash,
        last_verified |-> current_timestamp,
        overall_status |-> so.overall,
        summary |-> so.summary,
        files |-> [kind |-> "list", items |-> files_list_from_map(acc.map)],
        approved_files |-> NoFiles]

\* compute_run_metadata: the new metadata.json document of a run.  The keys
\* written are schema_version, run, model_hash, last_verified,
\* overall_status, summary and files; approved_files is not among them.
compute_run_metadata(existing_metadata, session_files, current_timestamp) ==
    LET approved_map == approved_map_from_existing(existing_metadata.files)
        acc == UpsertSession(session_files,
                             [map |-> approved_map, ok |-> 0, ng |-> 0],
                             current_timestamp)
        so == build_summary_and_overall(Len(session_files), acc.ok, acc.ng)
    IN [schema_version |-> 1,
        run_timestamp |-> current_timestamp,
        model_hash |-> existing_metadata.model_hash,
        last_verified |-> existing_metadata.last_verified,
        overall_status |-> so.overall,
        summary |-> so.summary,
        files |-> [kind |-> "list", items |-> files_list_from_map(acc.map)],
        approved_files |-> NoFiles]

\* validate_metadata_payload: "ok", or the exception raised.  A document of
\* this model holds the summary keys total, ok and ng whenever it holds a
\* schema_version, so the last test never fails after the first passed.
validate_metadata_payload(meta) ==
    IF meta.schema_version # 1 THEN "ValidationError"
    ELSE IF meta.run_timestamp = NoTime THEN "ValidationError"
    ELSE IF meta.files.kind # "list" THEN "ValidationError"
    ELSE "ok"

RECURSIVE build_session_files(_, _)
\* verify/session.py: one session record per files_info item
build_session_files(files_info, approved_files) ==
    IF files_info = <<>> THEN <<>>
    ELSE LET fi == Head(files_info)
         IN <<[filename |-> fi.filename, hash |-> fi.hash,
               content |-> fi.content,
               approved |-> fi.filename \in approved_files]>>
            \o build_session_files(Tail(files_info), approved_files)

(***************************************************************************)
(* Trust store (verify/storage.py).  A store value st is a record:         *)
(*   base      - the .model-sentinel directory exists                      *)
(*   metadata  - model directory -> metadata.json document                 *)
(*   snapshots - <<model directory, filename>> -> files/<filename>         *)
(*   originals - model directory -> original_path.txt                      *)
(*   registry  - model key -> registry.json entry                          *)
(***************************************************************************)
EmptyStore ==
    [base |-> FALSE,
     metadata |-> [d \in {} |-> DefaultMetadata],
     snapshots |-> [k \in {} |-> <<>>],
     originals |-> [d \in {} |-> ""],
     registry |-> [k \in {} |-> [type |-> "", last_verified |-> NoTime,
                                 status |-> "", original_path |-> ""]]]

ensure_directories(st) == [st EXCEPT !.base = TRUE]

load_metadata(st, model_dir) ==
    IF model_dir \in DOMAIN st.metadata THEN st.metadata[model_dir]
    ELSE DefaultMetadata

save_metadata(st, model_dir, metadata) ==
    [st EXCEPT !.base = TRUE, !.metadata = (model_dir :> metadata) @@ @]

save_file_content(st, model_dir, filename, content) ==
    [st EXCEPT !.base = TRUE,
               !.snapshots = (<<model_dir, filename>> :> content) @@ @]

save_original_path(st, model_dir, original_path) ==
    [st EXCEPT !.base = TRUE, !.originals = (model_dir :> original_path) @@ @]

get_model_key(model_type, model_id) == <<model_type>> \o model_id

\* register_model that writes a registry holding the new entry alone
register_model_ReplacesRegistry(st, model_type, model_id, original_path, now_ts) ==
    [st EXCEPT !.base = TRUE,
               !.registry = (get_model_key(model_type, model_id) :>
                               [type |-> model_type, last_verified |-> now_ts,
                                status |-> "verified",
                                original_path |-> original_path])]

\* StorageManager.register_model: load the registry, set the entry of the
\* model's key, save the registry (original_path "": no such field)
register_model(st, model_type, model_id, original_path, now_ts) ==
    [st EXCEPT !.base = TRUE,
               !.registry = (get_model_key(model_type, model_id) :>
                               [type |-> model_type, last_verified |-> now_ts,
                                status |-> "verified",
                                original_path |-> original_path]) @@ @]

\* the local model directory: its name and the *.py files below it
LocalName == "m"

LocalPath == "/models/m"

\* the hub repository and revision of the remote target
RepoId == <<"org", "repo">>

Revision == "main"

\* generate_local_model_dir_name that names the area after the directory
\* alone
generate_local_model_dir_name_NameOnly(dir) == <<LocalName>>

\* StorageManager.generate_local_model_dir_name: "<name>_<hash8>"
generate_local_model_dir_name(dir) ==
    <<LocalName>> \o Hash8(calculate_directory_hash(dir))

get_local_model_dir(dir) == <<"local">> \o generate_local_model_dir_name(dir)

\* StorageManager.get_hf_model_dir: hf/<org>/<model>@<revision>
get_hf_model_dir(repo_id, revision) ==
    <<"hf", repo_id[1], repo_id[2], "@", revision>>

(***************************************************************************)
(* Verify (verify/verify.py)                                               *)
(***************************************************************************)
RECURSIVE FindByPath(_, _)
\* the first item of items whose path is filename, as a one-element
\* sequence; <<>> when there is none (file_info is None)
FindByPath(items, filename) ==
    IF items = <<>> THEN <<>>
    ELSE IF Head(items).path = filename THEN <<Head(items)>>
    ELSE FindByPath(Tail(items), filename)

\* check_file_changed that only looks for a record of the path and never
\* compares the hash
check_file_changed_PresenceOnly(st, model_dir, filename, current_hash) ==
    LET metadata == load_metadata(st, model_dir)
        files_entry == metadata.files
        file_info == IF files_entry.kind \in {"dict", "list"}
                     THEN FindByPath(files_entry.items, filename)
                     ELSE <<>>
    IN file_info = <<>>

\* Verify.check_file_changed: True if the file is new or its hash differs
check_file_changed(st, model_dir, filename, current_hash) ==
    LET metadata == load_metadata(st, model_dir)
        files_entry == metadata.files
        file_info == IF files_entry.kind \in {"dict", "list"}
                     THEN FindByPath(files_entry.items, filename)
                     ELSE <<>>
    IN IF file_info = <<>> THEN TRUE
       ELSE file_info[1].hash # current_hash

RECURSIVE SetDictEntry(_, _)
\* files_entry[filename] = {...} on a legacy dict: replace in place, or
\* insert at the end
SetDictEntry(items, entry) ==
    IF items = <<>> THEN <<entry>>
    ELSE IF Head(items).path = entry.path THEN <<entry>> \o Tail(items)
    ELSE <<Head(items)>> \o SetDictEntry(Tail(items), entry)

\* Verify._update_file_metadata: store the content; on a legacy dict-shaped
\* document also write the file's entry and last_verified
update_file_metadata(st, model_dir, filename, file_hash, content, now_ts) ==
    LET st1 == save_file_content(st, model_dir, filename, content)
        metadata == load_metadata(st1, model_dir)
    IN IF metadata.files.kind = "dict"
       THEN save_metadata(st1, model_dir,
              [metadata EXCEPT
                 !.files.items = SetDictEntry(@,
                     [path |-> filename, size |-> Len(content),
                      hash |-> file_hash, status |-> "",
                      verified_at |-> now_ts]),
                 !.last_verified = now_ts])
       ELSE st1

\* the answers an operator can type at "Do you trust <file>? (y/N): "
Answers == {"y", "Yes", ""}

\* the operator ends the process at the prompt instead of answering
\* (Ctrl-C, a signal): input() does not return
Interrupt == "^C"

\* str.lower()
Lower(response) ==
    CASE response \in {"Yes", "yEs", "yeS", "YEs", "YeS", "yES", "YES"} -> "yes"
      [] response = "Y" -> "y"
      [] response \in {"No", "nO", "NO"} -> "no"
      [] response = "N" -> "n"
      [] OTHER -> response

\* prompt_user_verification that trusts every answer but a refusal
prompt_user_verification_DefaultYes(response) ==
    Lower(response) \notin {"n", "no"}

\* verify_file.prompt_user_verification
prompt_user_verification(response) == Lower(response) \in {"y", "yes"}

\* verify_file that stores the file whatever the operator answered
verify_file_StoresRejected(st, filename, current_hash, content, model_dir, response, now_ts) ==
    [st |-> update_file_metadata(st, model_dir, filename, current_hash,
                                 content, now_ts),
     ok |-> prompt_user_verification(response)]

\* Verify.verify_file: prompt, and store the file when trusted
verify_file(st, filename, current_hash, content, model_dir, response, now_ts) ==
    IF prompt_user_verification(response)
    THEN [st |-> update_file_metadata(st, model_dir, filename, current_hash,
                                      content, now_ts),
          ok |-> TRUE]
    ELSE [st |-> st, ok |-> FALSE]

\* Verify.update_model_hash
update_model_hash(st, model_dir, new_hash, now_ts) ==
    LET metadata == load_metadata(st, model_dir)
    IN save_metadata(st, model_dir,
                     [metadata EXCEPT !.model_hash = new_hash,
                                      !.last_verified = now_ts])

\* delete_hash_file that leaves the metadata documents in place
delete_hash_file_KeepsMetadata(st) ==
    [st |-> [EmptyStore EXCEPT !.metadata = st.metadata], ret |-> "True"]

\* Verify.delete_hash_file: shutil.rmtree of the base directory when it
\* exists; True in both cases
delete_hash_file(st) ==
    [st |-> EmptyStore, ret |-> "True"]

\* Verify.save_run_metadata
save_run_metadata(st, model_dir, session_files, now_ts) ==
    LET existing == load_metadata(st, model_dir)
    IN save_metadata(st, model_dir,
                     compute_run_metadata(existing, session_files, now_ts))

(***************************************************************************)
(* Targets (target/base.py, target/local.py, target/hf.py)                 *)
(***************************************************************************)
\* TargetBase.get_model_directory_path for a local model: resolve the
\* directory and write original_path.txt
get_local_storage_dir(st, dir) ==
    [st |-> save_original_path(st, get_local_model_dir(dir), LocalPath),
     model_dir |-> get_local_model_dir(dir)]

\* check_model_hash_changed that reports a change whatever the stored hash
check_model_hash_changed_Always(st, model_dir, current_hash) == TRUE

\* TargetBase.check_model_hash_changed
check_model_hash_changed(st, model_dir, current_hash) ==
    load_metadata(st, model_dir).model_hash # current_hash

RECURSIVE WorkflowLoop_LastAnswerWins(_, _, _, _, _, _)
\* WorkflowLoop in which all_verified is overwritten by every decision
\* instead of being cleared by a rejection
WorkflowLoop_LastAnswerWins(files_to_check, model_dir, answers, now_ts, acc, k) ==
    IF k > Len(files_to_check) \/ acc.killed THEN acc
    ELSE LET file_info == files_to_check[k]
         IN IF ~check_file_changed(acc.st, model_dir, file_info.filename,
                                   file_info.hash)
            THEN WorkflowLoop_LastAnswerWins(files_to_check, model_dir, answers,
                                             now_ts, acc, k + 1)
            ELSE IF answers[file_info.filename] = Interrupt
            THEN [acc EXCEPT !.killed = TRUE,
                             !.prompted = Append(@, file_info.filename)]
            ELSE LET r == verify_file(acc.st, file_info.filename, file_info.hash,
                                      file_info.content, model_dir,
                                      answers[file_info.filename], now_ts)
                 IN WorkflowLoop_LastAnswerWins(files_to_check, model_dir, answers,
                      now_ts,
                      [st |-> r.st, killed |-> FALSE,
                       session |-> Append(acc.session,
                                     [filename |-> file_info.filename,
                                      hash |-> file_info.hash,
                                      content |-> file_info.content,
                                      approved |-> r.ok]),
                       prompted |-> Append(acc.prompted, file_info.filename),
                       all_verified |-> r.ok],
                      k + 1)

RECURSIVE WorkflowLoop(_, _, _, _, _, _)
\* the loop of TargetBase._verify_files_workflow; acc carries the store,
\* the session, the prompted files and all_verified; the loop ends early,
\* with killed set, when the process is ended at a prompt
WorkflowLoop(files_to_check, model_dir, answers, now_ts, acc, k) ==
    IF k > Len(files_to_check) \/ acc.killed THEN acc
    ELSE LET file_info == files_to_check[k]
         IN IF ~check_file_changed(acc.st, model_dir, file_info.filename,
                                   file_info.hash)
            THEN WorkflowLoop(files_to_check, model_dir, answers, now_ts, acc, k + 1)
            ELSE IF answers[file_info.filename] = Interrupt
            THEN [acc EXCEPT !.killed = TRUE,
                             !.prompted = Append(@, file_info.filename)]
            ELSE LET r == verify_file(acc.st, file_info.filename, file_info.hash,
                                      file_info.content, model_dir,
                                      answers[file_info.filename], now_ts)
                 IN WorkflowLoop(files_to_check, model_dir, answers, now_ts,
                      [st |-> r.st, killed |-> FALSE,
                       session |-> Append(acc.session,
                                     [filename |-> file_info.filename,
                                      hash |-> file_info.hash,
                                      content |-> file_info.content,
                                      approved |-> r.ok]),
                       prompted |-> Append(acc.prompted, file_info.filename),
                       all_verified |-> acc.all_verified /\ r.ok],
                      k + 1)

\* TargetBase._verify_files_workflow.  write_fails: save_run_metadata raises
\* before it has written anything; the exception is caught and reported as
\* a warning.  A process ended at a prompt never reaches save_run_metadata.
verify_files_workflow(st, files_to_check, model_dir, answers, write_fails, now_ts) ==
    LET acc == WorkflowLoop(files_to_check, model_dir, answers, now_ts,
                 [st |-> ensure_directories(st), session |-> <<>>,
                  prompted |-> <<>>, all_verified |-> TRUE, killed |-> FALSE], 1)
    IN IF acc.killed \/ write_fails THEN acc
       ELSE [acc EXCEPT !.st = save_run_metadata(acc.st, model_dir, acc.session,
                                                 now_ts)]

\* the matching files of a directory as the function path -> bytes
DirOf(files) ==
    [n \in {m \in DOMAIN files : files[m] # 0} |-> ContentOf(files[n])]

\* TargetLocal.verify_local_files / get_files_for_verification: one item per
\* *.py file, in the order the file system enumerates them
LocalFilesInfo(dir, order) ==
    [i \in 1..Len(order) |->
       [filename |-> order[i],
        hash |-> calculate_file_hash(dir[order[i]]),
        content |-> dir[order[i]]]]

\* the hub's blob id of a file (git's content address)
BlobId(content) == <<"blob">> \o content

\* the hub's revision id (model_info.sha) of the k-th commit
RevToken == <<"r1", "r2", "r3", "r4">>

Sha(rev) == <<"commit", RevToken[rev]>>

\* model_info.siblings, in the hub's listing order
Siblings(files) ==
    LET py == Sorted({n \in DOMAIN files : files[n] # 0})
    IN <<OtherSibling>> \o py

RECURSIVE HubFilesInfo(_, _, _)
\* the loop of TargetHF.verify_remote_files / get_files_for_verification
\* over the siblings: the .py files whose download succeeded, in order
HubFilesInfo(siblings, files, failed) ==
    IF siblings = <<>> THEN <<>>
    ELSE LET name == Head(siblings)
             rest == HubFilesInfo(Tail(siblings), files, failed)
         IN IF EndsWithPy(name) /\ name \notin failed
            THEN <<[filename |-> name, hash |-> BlobId(ContentOf(files[name])),
                    content |-> ContentOf(files[name])]>> \o rest
            ELSE rest

\* the .py siblings a run tries to download, up to the first failure
Downloaded(siblings, failed) ==
    LET py == SelectSeq(siblings, EndsWithPy)
        bad == {i \in 1..Len(py) : py[i] \in failed}
    IN IF bad = {} THEN Len(py)
       ELSE CHOOSE i \in bad : \A j \in bad : i <= j

(***************************************************************************)
(* Interactive flow (verify/verify.py, gui/main.py)                        *)
(***************************************************************************)
NoResult ==
    [active |-> FALSE, target_type |-> "", model_hash_changed |-> FALSE,
     new_model_hash |-> None, files_info |-> <<>>, fetch_failed |-> {}]

\* Verify._verify_model_template: detect the changes and, when the model
\* hash changed, list the files of the target
verify_model_template(target_type, new_model_hash, files_info, fetch_failed) ==
    [active |-> TRUE, target_type |-> target_type,
     model_hash_changed |-> new_model_hash # None,
     new_model_hash |-> new_model_hash,
     files_info |-> IF new_model_hash # None THEN files_info ELSE <<>>,
     fetch_failed |-> IF new_model_hash # None THEN fetch_failed ELSE {}]

\* Verify._resolve_model_dir(verification_result=...): for a local target
\* the directory is named after the directory's content at the time of call
resolve_model_dir(verification_result, dir) ==
    IF verification_result.target_type = "local"
    THEN get_local_model_dir(dir)
    ELSE get_hf_model_dir(RepoId, Revision)

RECURSIVE UpdateApprovedLoop(_, _, _, _, _)
\* Verify._update_approved_files_directory
UpdateApprovedLoop(st, model_dir, files_info, approved_files, now_ts) ==
    IF files_info = <<>> THEN st
    ELSE LET fi == Head(files_info)
         IN UpdateApprovedLoop(
              IF fi.filename \in approved_files
              THEN update_file_metadata(st, model_dir, fi.filename, fi.hash,
                                        fi.content, now_ts)
              ELSE st,
              model_dir, Tail(files_info), approved_files, now_ts)

\* Verify.save_verification_results
save_verification_results(st, verification_result, approved_files, dir, now_ts) ==
    IF ~verification_result.model_hash_changed THEN st
    ELSE LET model_dir == resolve_model_dir(verification_result, dir)
             st1 == IF verification_result.new_model_hash # None
                    THEN update_model_hash(st, model_dir,
                             verification_result.new_model_hash, now_ts)
                    ELSE st
             st2 == UpdateApprovedLoop(st1, model_dir,
                       verification_result.files_info, approved_files, now_ts)
             st3 == save_run_metadata(st2, model_dir,
                       build_session_files(verification_result.files_info,
                                           approved_files), now_ts)
         IN IF verification_result.target_type = "local"
            THEN register_model(st3, "local", generate_local_model_dir_name(dir),
                                LocalPath, now_ts)
            ELSE register_model(st3, "hf", Tail(get_hf_model_dir(RepoId, Revision)),
                                "", now_ts)

\* the names of a files_info / session list
Filenames(files_info) == {files_info[i].filename : i \in 1..Len(files_info)}

(***************************************************************************)
(* State                                                                   *)
(***************************************************************************)
VARIABLES
    target,       \* the target the commands address: "local" or "hf"
    localExists,  \* the local model directory exists
    localFiles,   \* the *.py files of the local model directory: name -> version
    hubFiles,     \* the .py files of the hub repository: name -> version
    hubRev,       \* the number of the hub's current revision
    store,        \* the trust store on disk
    now,          \* the clock
    result,       \* the verification result held by the interactive surface
    last,         \* what the last operation did and returned
    approved,     \* every <<model directory, filename, hash>> a human approved
    pure          \* inputs and outputs of the pure-function specifications

vars == <<target, localExists, localFiles, hubFiles, hubRev, store, now, result,
          last, approved, pure>>

main == <<target, localExists, localFiles, hubFiles, hubRev, store, now, result,
          last, approved>>

NoPure == [op |-> "none"]

NoRun ==
    [op |-> "init", model_dir |-> <<>>, ret |-> "", changed |-> FALSE,
     new_hash |-> None, candidates |-> {}, prompted |-> {}, session |-> {},
     downloads |-> 0, fetch_failed |-> {}, updated |-> FALSE, gui |-> "",
     write_failed |-> FALSE, missing |-> FALSE, exit_on_reject |-> FALSE,
     clicked |-> FALSE, completion_requested |-> FALSE,
     verification_result |-> FALSE]

MainInit ==
    /\ target \in {"local", "hf"}
    /\ localExists = TRUE
    /\ localFiles = [n \in PyNames |-> 1]
    /\ hubFiles = [n \in PyNames |-> 1]
    /\ hubRev = 1
    /\ store = EmptyStore
    /\ now = 1
    /\ result = NoResult
    /\ last = NoRun
    /\ approved = {}

\* the session files a human approved in a run on model_dir
Approvals(model_dir, session) ==
    {<<model_dir, session[i].filename, session[i].hash>> :
        i \in {j \in 1..Len(session) : session[j].approved}}

\* the <<filename, hash>> pairs of a files_info list
Candidates(files_info) ==
    {<<files_info[i].filename, files_info[i].hash>> : i \in 1..Len(files_info)}

\* the <<filename, hash, approved>> triples of a session
SessionSet(session) ==
    {<<session[i].filename, session[i].hash, session[i].approved>> :
        i \in 1..Len(session)}

\* one step of the clock; the clock bounds the length of a behaviour
Tick ==
    /\ now <= MaxClock
    /\ now' = now + 1

(***************************************************************************)
(* Environment                                                             *)
(***************************************************************************)
\* a *.py file of the local directory is written, created or removed
EditLocal(name, v) ==
    /\ target = "local"
    /\ Tick
    /\ localExists
    /\ localFiles[name] # v
    /\ localFiles' = [localFiles EXCEPT ![name] = v]
    /\ last' = [NoRun EXCEPT !.op = "edit"]
    /\ UNCHANGED <<target, localExists, hubFiles, hubRev, store, result, approved>>

\* the local model directory is removed with everything below it
RemoveLocalDir ==
    /\ target = "local"
    /\ Tick
    /\ localExists
    /\ localExists' = FALSE
    /\ localFiles' = [n \in PyNames |-> 0]
    /\ last' = [NoRun EXCEPT !.op = "rmdir"]
    /\ UNCHANGED <<target, hubFiles, hubRev, store, result, approved>>

\* the local model directory is created, empty
CreateLocalDir ==
    /\ target = "local"
    /\ Tick
    /\ ~localExists
    /\ localExists' = TRUE
    /\ last' = [NoRun EXCEPT !.op = "mkdir"]
    /\ UNCHANGED <<target, localFiles, hubFiles, hubRev, store, result, approved>>

\* a commit changing one .py file is pushed to the hub repository
PushHub(name, v) ==
    /\ target = "hf"
    /\ Tick
    /\ hubRev < MaxRev
    /\ hubFiles[name] # v
    /\ hubFiles' = [hubFiles EXCEPT ![name] = v]
    /\ hubRev' = hubRev + 1
    /\ last' = [NoRun EXCEPT !.op = "push"]
    /\ UNCHANGED <<target, localExists, localFiles, store, result, approved>>

(***************************************************************************)
(* Console runs                                                            *)
(***************************************************************************)
\* _handle_missing_directory that creates the storage directories before
\* it reports the missing model directory
handle_missing_directory_CreatesStore(st, exit_on_reject) ==
    [st |-> ensure_directories(st),
     ret |-> IF exit_on_reject THEN "exit(1)" ELSE "False"]

\* target/local.py _handle_missing_directory
handle_missing_directory(st, exit_on_reject) ==
    [st |-> st, ret |-> IF exit_on_reject THEN "exit(1)" ELSE "False"]

\* verify_local_model(model_dir, gui=False, exit_on_reject)
VerifyLocalCli(order, answers, write_fails, exit_on_reject) ==
    LET dir == DirOf(localFiles)
        current_hash == calculate_directory_hash(dir)
        g == get_local_storage_dir(store, dir)
        changed == check_model_hash_changed(g.st, g.model_dir, current_hash)
        files_to_check == LocalFilesInfo(dir, order)
        w == verify_files_workflow(g.st, files_to_check, g.model_dir, answers,
                                   write_fails, now)
        promoted == register_model(
                      update_model_hash(w.st, g.model_dir, current_hash, now),
                      "local", generate_local_model_dir_name(dir), LocalPath, now)
        m == handle_missing_directory(store, exit_on_reject)
        run == [NoRun EXCEPT !.op = "local_cli", !.model_dir = g.model_dir,
                             !.changed = changed]
    IN /\ target = "local"
       /\ Tick
       /\ IF ~localExists
          THEN /\ store' = m.st
               /\ last' = [NoRun EXCEPT !.op = "local_cli", !.ret = m.ret,
                                        !.missing = TRUE,
                                        !.exit_on_reject = exit_on_reject]
               /\ approved' = approved
          ELSE IF ~changed
          THEN /\ store' = g.st
               /\ last' = [run EXCEPT !.ret = "True"]
               /\ approved' = approved
          ELSE /\ store' = IF w.all_verified THEN promoted ELSE w.st
               /\ last' = [run EXCEPT
                     !.ret = IF w.all_verified THEN "True"
                             ELSE IF exit_on_reject THEN "exit(1)" ELSE "False",
                     !.new_hash = current_hash,
                     !.candidates = Candidates(files_to_check),
                     !.prompted = Range(w.prompted),
                     !.session = SessionSet(w.session),
                     !.updated = w.all_verified,
                     !.write_failed = write_fails]
               /\ approved' = approved \cup Approvals(g.model_dir, w.session)
       /\ UNCHANGED <<target, localExists, localFiles, hubFiles, hubRev, result>>

\* verify_local_model(model_dir, gui=False) whose process is ended at one of
\* its prompts
InterruptLocalCli(order, answers) ==
    LET dir == DirOf(localFiles)
        current_hash == calculate_directory_hash(dir)
        g == get_local_storage_dir(store, dir)
        files_to_check == LocalFilesInfo(dir, order)
        w == verify_files_workflow(g.st, files_to_check, g.model_dir, answers,
                                   FALSE, now)
    IN /\ target = "local"
       /\ Tick
       /\ localExists
       /\ check_model_hash_changed(g.st, g.model_dir, current_hash)
       /\ w.killed
       /\ store' = w.st
       /\ last' = [NoRun EXCEPT !.op = "local_cli_killed",
                                !.model_dir = g.model_dir, !.ret = "killed",
                                !.changed = TRUE, !.new_hash = current_hash,
                                !.candidates = Candidates(files_to_check),
                                !.prompted = Range(w.prompted),
                                !.session = SessionSet(w.session)]
       /\ approved' = approved \cup Approvals(g.model_dir, w.session)
       /\ UNCHANGED <<target, localExists, localFiles, hubFiles, hubRev, result>>

\* verify_remote_files that leaves a file whose download failed out of
\* files_to_check instead of returning False
verify_remote_files_SkipFailed(st, files, failed, answers, write_fails, now_ts) ==
    LET siblings == Siblings(files)
        model_dir == get_hf_model_dir(RepoId, Revision)
        files_to_check == HubFilesInfo(siblings, files, failed)
        w == verify_files_workflow(st, files_to_check, model_dir, answers,
                                   write_fails, now_ts)
    IN [ret |-> w.all_verified, st |-> w.st,
        candidates |-> Candidates(files_to_check), prompted |-> w.prompted,
        session |-> w.session,
        downloads |-> Len(SelectSeq(siblings, EndsWithPy))]

\* TargetHF.verify_remote_files; failed: the files whose download raises.
\* A failed download returns False before the workflow is entered.
verify_remote_files(st, files, failed, answers, write_fails, now_ts) ==
    LET siblings == Siblings(files)
        model_dir == get_hf_model_dir(RepoId, Revision)
        files_to_check == HubFilesInfo(siblings, files, {})
        w == verify_files_workflow(st, files_to_check, model_dir, answers,
                                   write_fails, now_ts)
    IN IF failed # {}
       THEN [ret |-> FALSE, st |-> st, candidates |-> {}, prompted |-> <<>>,
             session |-> <<>>, downloads |-> Downloaded(siblings, failed)]
       ELSE [ret |-> w.all_verified, st |-> w.st,
             candidates |-> Candidates(files_to_check), prompted |-> w.prompted,
             session |-> w.session, downloads |-> Len(files_to_check)]

\* verify_hf_model(repo_id, revision, gui=False)
VerifyHfCli(failed, answers, write_fails) ==
    LET current_hash == Sha(hubRev)
        model_dir == get_hf_model_dir(RepoId, Revision)
        changed == check_model_hash_changed(store, model_dir, current_hash)
        v == verify_remote_files(store, hubFiles, failed, answers, write_fails, now)
        run == [NoRun EXCEPT !.op = "hf_cli", !.model_dir = model_dir,
                             !.changed = changed]
    IN /\ target = "hf"
       /\ Tick
       /\ IF ~changed
          THEN /\ store' = store
               /\ last' = [run EXCEPT !.ret = "True"]
               /\ approved' = approved
          ELSE /\ store' = IF v.ret
                           THEN update_model_hash(v.st, model_dir, current_hash, now)
                           ELSE v.st
               /\ last' = [run EXCEPT
                     !.ret = IF v.ret THEN "True" ELSE "False",
                     !.new_hash = current_hash,
                     !.candidates = v.candidates,
                     !.downloads = v.downloads,
                     !.fetch_failed = failed,
                     !.prompted = Range(v.prompted),
                     !.session = SessionSet(v.session),
                     !.updated = v.ret,
                     !.write_failed = write_fails /\ failed = {}]
               /\ approved' = approved \cup Approvals(model_dir, v.session)
       /\ UNCHANGED <<target, localExists, localFiles, hubFiles, hubRev, result>>

\* verify_hf_model(repo_id, revision, gui=False) whose process is ended at
\* one of its prompts (every download succeeded)
InterruptHfCli(answers) ==
    LET current_hash == Sha(hubRev)
        model_dir == get_hf_model_dir(RepoId, Revision)
        files_to_check == HubFilesInfo(Siblings(hubFiles), hubFiles, {})
        w == verify_files_workflow(store, files_to_check, model_dir, answers,
                                   FALSE, now)
    IN /\ target = "hf"
       /\ Tick
       /\ check_model_hash_changed(store, model_dir, current_hash)
       /\ w.killed
       /\ store' = w.st
       /\ last' = [NoRun EXCEPT !.op = "hf_cli_killed", !.model_dir = model_dir,
                                !.ret = "killed", !.changed = TRUE,
                                !.new_hash = current_hash,
                                !.candidates = Candidates(files_to_check),
                                !.downloads = Len(files_to_check),
                                !.prompted = Range(w.prompted),
                                !.session = SessionSet(w.session)]
       /\ approved' = approved \cup Approvals(model_dir, w.session)
       /\ UNCHANGED <<target, localExists, localFiles, hubFiles, hubRev, result>>

(***************************************************************************)
(* Interactive runs                                                        *)
(***************************************************************************)
\* TargetLocal.detect_model_changes: the new hash, or None when unchanged
local_detect_model_changes(st, dir) ==
    LET g == get_local_storage_dir(st, dir)
        current_hash == calculate_directory_hash(dir)
    IN [st |-> g.st,
        new_model_hash |-> IF check_model_hash_changed(g.st, g.model_dir, current_hash)
                           THEN current_hash ELSE None]

\* TargetHF.detect_model_changes: the new hash, or None when unchanged
hf_detect_model_changes(st, rev) ==
    IF check_model_hash_changed(st, get_hf_model_dir(RepoId, Revision), Sha(rev))
    THEN Sha(rev) ELSE None

\* Verify.verify_local_model(model_dir): the result for the interactive
\* surface; FileNotFoundError when the directory does not exist
PrepareLocal(order) ==
    LET dir == DirOf(localFiles)
        d == local_detect_model_changes(store, dir)
        r == verify_model_template("local", d.new_model_hash,
                                   LocalFilesInfo(dir, order), {})
    IN /\ target = "local"
       /\ Tick
       /\ ~result.active
       /\ IF ~localExists
          THEN /\ store' = store
               /\ result' = result
               /\ last' = [NoRun EXCEPT !.op = "prepare_local",
                                        !.ret = "FileNotFoundError",
                                        !.missing = TRUE]
          ELSE /\ store' = d.st
               /\ result' = r
               /\ last' = [NoRun EXCEPT !.op = "prepare_local",
                                        !.model_dir = get_local_model_dir(dir),
                                        !.changed = r.model_hash_changed,
                                        !.new_hash = r.new_model_hash,
                                        !.candidates = Candidates(r.files_info)]
       /\ UNCHANGED <<target, localExists, localFiles, hubFiles, hubRev, approved>>

\* Verify.verify_hf_model(repo_id, revision): the result for the interactive
\* surface; failed: the files whose download raises
PrepareHf(failed) ==
    LET siblings == Siblings(hubFiles)
        r == verify_model_template("hf", hf_detect_model_changes(store, hubRev),
                                   HubFilesInfo(siblings, hubFiles, failed), failed)
    IN /\ target = "hf"
       /\ Tick
       /\ ~result.active
       /\ result' = r
       /\ last' = [NoRun EXCEPT !.op = "prepare_hf",
                                !.model_dir = get_hf_model_dir(RepoId, Revision),
                                !.changed = r.model_hash_changed,
                                !.new_hash = r.new_model_hash,
                                !.candidates = Candidates(r.files_info),
                                !.fetch_failed = r.fetch_failed,
                                !.downloads = IF r.model_hash_changed
                                              THEN Len(SelectSeq(siblings, EndsWithPy))
                                              ELSE 0]
       /\ UNCHANGED <<target, localExists, localFiles, hubFiles, hubRev, store, approved>>

\* Verify.save_verification_results(verification_result, approved_files)
SaveResults(approved_files) ==
    LET dir == DirOf(localFiles)
        model_dir == resolve_model_dir(result, dir)
        session == build_session_files(result.files_info, approved_files)
    IN /\ Tick
       /\ result.active
       /\ store' = save_verification_results(store, result, approved_files, dir, now)
       /\ result' = NoResult
       /\ last' = [NoRun EXCEPT !.op = "save", !.model_dir = model_dir,
                                !.changed = result.model_hash_changed,
                                !.new_hash = result.new_model_hash,
                                !.candidates = Candidates(result.files_info),
                                !.session = SessionSet(session),
                                !.fetch_failed = result.fetch_failed,
                                !.updated = result.model_hash_changed]
       /\ approved' = approved \cup
                        (IF result.model_hash_changed
                         THEN Approvals(model_dir, session) ELSE {})
       /\ UNCHANGED <<target, localExists, localFiles, hubFiles, hubRev>>

\* complete_verification_simple that accepts the run as soon as one listed
\* file is checked
complete_verification_simple_AnyApproved(st, verification_result, files_to_verify, checked, dir, now_ts) ==
    LET approved_files == Filenames(files_to_verify) \cap checked
        any_approved == approved_files # {}
    IN [st |-> IF any_approved
               THEN save_verification_results(st, verification_result,
                                              approved_files, dir, now_ts)
               ELSE st,
        approved_files |-> approved_files,
        gui_state |-> [verification_result |-> any_approved,
                       completion_requested |-> TRUE]]

\* the handler of the "Complete Verification" button
\* (gui/components.py and gui/main.py complete_verification_simple);
\* checked: the files whose checkbox is ticked
complete_verification_simple(st, verification_result, files_to_verify, checked, dir, now_ts) ==
    LET approved_files == Filenames(files_to_verify) \cap checked
        total_files == Len(files_to_verify)
        all_approved == /\ Cardinality(approved_files) = total_files
                        /\ total_files > 0
    IN [st |-> IF all_approved
               THEN save_verification_results(st, verification_result,
                                              approved_files, dir, now_ts)
               ELSE st,
        approved_files |-> approved_files,
        gui_state |-> [verification_result |-> all_approved,
                       completion_requested |-> TRUE]]

\* gui/main.py launch_verification_gui for the hub target: prepare the
\* result, show the files and, when the "Complete Verification" button is
\* clicked, run its handler.  The button exists only when files are listed.
\* completed: the button was clicked; checked: the ticked files.  The
\* outcome is "approved", "rejected" or "closed".
launch_verification_gui(st, rev, files, failed, completed, checked, dir, now_ts) ==
    LET siblings == Siblings(files)
        r == verify_model_template("hf", hf_detect_model_changes(st, rev),
                                   HubFilesInfo(siblings, files, failed), failed)
        files_to_verify == IF r.model_hash_changed THEN r.files_info ELSE <<>>
        clicked == completed /\ Len(files_to_verify) > 0
        h == complete_verification_simple(st, r, files_to_verify, checked, dir,
                                          now_ts)
    IN [result |-> r,
        files_to_verify |-> files_to_verify,
        clicked |-> clicked,
        approved_files |-> IF clicked THEN h.approved_files ELSE {},
        gui_state |-> IF clicked THEN h.gui_state
                      ELSE [verification_result |-> FALSE,
                            completion_requested |-> FALSE],
        outcome |-> IF ~clicked THEN "closed"
                    ELSE IF h.gui_state.verification_result THEN "approved"
                    ELSE "rejected",
        st |-> IF clicked THEN h.st ELSE st]

\* verify_hf_model(repo_id, revision, gui=True); available: gradio can be
\* imported
VerifyHfGui(available, failed, completed, checked) ==
    /\ target = "hf"
    /\ Tick
    /\ \E g \in {launch_verification_gui(store, hubRev, hubFiles, failed,
                        completed, checked, DirOf(localFiles), now)},
          model_dir \in {get_hf_model_dir(RepoId, Revision)},
          run \in {[NoRun EXCEPT
                      !.op = "hf_gui",
                      !.model_dir = get_hf_model_dir(RepoId, Revision),
                      !.changed = hf_detect_model_changes(store, hubRev) # None]} :
          IF ~available
          THEN /\ store' = store
               /\ last' = [run EXCEPT !.ret = "False", !.gui = "unavailable"]
               /\ approved' = approved
          ELSE /\ store' = g.st
               /\ last' = [run EXCEPT !.ret = "True", !.gui = g.outcome,
                     !.new_hash = g.result.new_model_hash,
                     !.candidates = Candidates(g.files_to_verify),
                     !.fetch_failed = g.result.fetch_failed,
                     !.updated = g.outcome = "approved",
                     !.session = IF g.clicked
                                 THEN SessionSet(build_session_files(
                                        g.files_to_verify, g.approved_files))
                                 ELSE {},
                     !.clicked = g.clicked,
                     !.completion_requested = g.gui_state.completion_requested,
                     !.verification_result = g.gui_state.verification_result]
               /\ approved' = approved \cup
                     (IF g.outcome = "approved"
                      THEN {<<model_dir, g.files_to_verify[i].filename,
                              g.files_to_verify[i].hash>> :
                               i \in 1..Len(g.files_to_verify)}
                      ELSE {})
    /\ UNCHANGED <<target, localExists, localFiles, hubFiles, hubRev, result>>

\* model-sentinel --delete: Verify.delete_hash_file on the whole trust store
DeleteStore ==
    LET d == delete_hash_file(store)
    IN /\ Tick
       /\ store' = d.st
       /\ last' = [NoRun EXCEPT !.op = "delete", !.ret = d.ret,
                                !.changed = store.base]
       /\ UNCHANGED <<target, localExists, localFiles, hubFiles, hubRev, result,
                      approved>>

(***************************************************************************)
(* Specifications                                                          *)
(***************************************************************************)
Present(files) == {n \in PyNames : files[n] # 0}

\* the local / hub target differs from what the store holds for it, so a run
\* on it reads its inputs (enumeration, answers, faults)
LocalPending ==
    /\ localExists
    /\ check_model_hash_changed(store, get_local_model_dir(DirOf(localFiles)),
                                calculate_directory_hash(DirOf(localFiles)))

HubPending ==
    check_model_hash_changed(store, get_hf_model_dir(RepoId, Revision), Sha(hubRev))

\* the value of the answers no prompt ever asks for
NoAnswers(files) == [n \in Present(files) |-> ""]

\* the answers of a run that the user interrupts at one of its prompts
InterruptedAnswers(files) ==
    {a \in [Present(files) -> Answers \cup {Interrupt}] :
        \E n \in Present(files) : a[n] = Interrupt}

\* The inputs of a run are drawn from their whole domain where the run reads
\* them; an input the run does not read (the answers of a run that returns
\* before its first prompt, the checkboxes of a window that is closed) is
\* left at one value.
\* the inputs of a run that cannot start (the clock is at its bound, the run
\* is on the other target) are not drawn at all.
Starts(t) == now <= MaxClock /\ target = t

\* <<order, answers, write_fails>> of a console run on the local target
LocalRunInputs ==
    IF ~Starts("local") THEN {}
    ELSE IF LocalPending
    THEN Perms(Present(localFiles)) \X [Present(localFiles) -> Answers] \X BOOLEAN
    ELSE {<<Sorted(Present(localFiles)), NoAnswers(localFiles), FALSE>>}

\* <<order, answers>> of an interrupted console run on the local target
LocalInterruptInputs ==
    IF Starts("local") /\ LocalPending
    THEN Perms(Present(localFiles)) \X InterruptedAnswers(localFiles)
    ELSE {}

\* <<failed, answers, write_fails>> of a console run on the hub target: a
\* run with a failed download returns before its first prompt
HubRunInputs ==
    IF ~Starts("hf") THEN {}
    ELSE IF HubPending
    THEN ({{}} \X [Present(hubFiles) -> Answers] \X BOOLEAN)
         \cup ((SUBSET Present(hubFiles) \ {{}})
                 \X {NoAnswers(hubFiles)} \X {FALSE})
    ELSE {<<{}, NoAnswers(hubFiles), FALSE>>}

\* the answers of an interrupted console run on the hub target
HubInterruptInputs ==
    IF Starts("hf") /\ HubPending THEN InterruptedAnswers(hubFiles) ELSE {}

\* <<available, failed, completed, checked>> of an interactive run: without
\* gradio nothing is fetched or shown, and without a click no checkbox is read
GuiRunInputs ==
    IF ~Starts("hf") THEN {}
    ELSE {<<FALSE, {}, FALSE, {}>>}
         \cup ({TRUE} \X (SUBSET Present(hubFiles)) \X {FALSE} \X {{}})
         \cup ({TRUE} \X (SUBSET Present(hubFiles)) \X {TRUE} \X (SUBSET PyNames))

MainNext ==
    \/ \E name \in PyNames, v \in 0..MaxVersion : EditLocal(name, v)
    \/ RemoveLocalDir
    \/ CreateLocalDir
    \/ \E name \in PyNames, v \in 0..MaxVersion : PushHub(name, v)
    \/ \E inp \in LocalRunInputs, exit_on_reject \in BOOLEAN :
          VerifyLocalCli(inp[1], inp[2], inp[3], exit_on_reject)
    \/ \E inp \in LocalInterruptInputs : InterruptLocalCli(inp[1], inp[2])
    \/ \E inp \in HubRunInputs : VerifyHfCli(inp[1], inp[2], inp[3])
    \/ \E answers \in HubInterruptInputs : InterruptHfCli(answers)
    \/ \E order \in Perms(Present(localFiles)) : PrepareLocal(order)
    \/ \E failed \in SUBSET Present(hubFiles) : PrepareHf(failed)
    \/ \E approved_files \in SUBSET PyNames : SaveResults(approved_files)
    \/ \E inp \in GuiRunInputs : VerifyHfGui(inp[1], inp[2], inp[3], inp[4])
    \/ DeleteStore

Init == MainInit /\ pure = NoPure

Next == MainNext /\ UNCHANGED pure

Spec == Init /\ [][Next]_vars

(***************************************************************************)
(* Specification of the fingerprint engine: two file sets are drawn and    *)
(* fingerprinted                                                           *)
(***************************************************************************)
RECURSIVE BytesUpTo(_)
\* the byte strings of at most n tokens over the tokens "b" and ".py"
BytesUpTo(n) ==
    IF n = 0 THEN {<<>>}
    ELSE LET shorter == BytesUpTo(n - 1)
         IN shorter \cup {Append(c, t) : c \in shorter, t \in {"b", ".py"}}

\* the contents of a directory: some of the names, each with its bytes
FileSets == UNION {[S -> BytesUpTo(MaxLen)] : S \in SUBSET PyNames}

FpInit ==
    /\ MainInit
    /\ target = "local"
    /\ pure \in {[op |-> "fp_in", a |-> a, b |-> b, ha |-> None, hb |-> None,
                  na |-> None, nb |-> None] :
                    a \in FileSets, b \in FileSets}

\* _calculate_directory_hash and generate_local_model_dir_name applied to
\* both file sets
Fingerprint ==
    /\ pure.op = "fp_in"
    /\ pure' = [pure EXCEPT !.op = "fp_out",
                            !.ha = calculate_directory_hash(pure.a),
                            !.hb = calculate_directory_hash(pure.b),
                            !.na = generate_local_model_dir_name(pure.a),
                            !.nb = generate_local_model_dir_name(pure.b)]
    /\ UNCHANGED main

FpNext == Fingerprint

FpSpec == FpInit /\ [][FpNext]_vars


(***************************************************************************)
(* Specification of the enumeration order: a file set and two orders in    *)
(* which rglob can yield its paths are drawn, and the set is fingerprinted *)
(* from each                                                               *)
(***************************************************************************)
OrderInit ==
    /\ target = "local"
    /\ localExists = TRUE
    /\ localFiles = [n \in PyNames |-> 1]
    /\ hubFiles = [n \in PyNames |-> 1]
    /\ hubRev = 1
    /\ store = EmptyStore
    /\ now = 1
    /\ result = NoResult
    /\ last = NoRun
    /\ approved = {}
    /\ pure \in UNION {{[op |-> "order_in", dir |-> d, e1 |-> e1, e2 |-> e2,
                         h1 |-> None, h2 |-> None] :
                          e1 \in Perms(DOMAIN d), e2 \in Perms(DOMAIN d)} :
                       d \in FileSets}

\* _calculate_directory_hash of the same directory under both enumerations
FingerprintEnumerations ==
    /\ pure.op = "order_in"
    /\ pure' = [pure EXCEPT
          !.op = "order_out",
          !.h1 = calculate_directory_hash_from(pure.dir, pure.e1),
          !.h2 = calculate_directory_hash_from(pure.dir, pure.e2)]
    /\ UNCHANGED main

OrderNext == FingerprintEnumerations

OrderSpec == OrderInit /\ [][OrderNext]_vars

(***************************************************************************)
(* The console prompt on its own: one call of verify_file for each answer  *)
(* an operator can type, each file, each content and each earlier state of *)
(* the store                                                               *)
(***************************************************************************)
\* what an operator can type at the prompt: the answers of the runs above,
\* every spelling of y / yes, refusals, and near misses
PromptAnswers ==
    Answers \cup {"y", "Y", "yes", "Yes", "yEs", "yeS", "YEs", "YeS", "yES", "YES",
                  "n", "N", "no", "No", "nO", "NO",
                  "", " ", "y ", " y", "yes ", "yy", "ye", "yess", "ok", "true"}

\* the model directory verify_file works on
PromptDir == get_hf_model_dir(RepoId, Revision)

\* the store before the call: empty, or holding an approval of the first
\* version of a.py
PromptStores ==
    {EmptyStore,
     update_file_metadata(EmptyStore, PromptDir, "a.py",
                          calculate_file_hash(ContentOf(1)), ContentOf(1), now)}

PromptInit ==
    /\ target = "hf"
    /\ localExists = TRUE
    /\ localFiles = [n \in PyNames |-> 1]
    /\ hubFiles = [n \in PyNames |-> 1]
    /\ hubRev = 1
    /\ store = EmptyStore
    /\ now = 1
    /\ result = NoResult
    /\ last = NoRun
    /\ approved = {}
    /\ pure \in {[op |-> "prompt_in", response |-> r, filename |-> n, v |-> v,
                   st |-> st, out |-> st, ok |-> FALSE] :
                    r \in PromptAnswers, n \in PyNames, v \in 1..MaxVersion,
                    st \in PromptStores}

\* Verify.verify_file(model_dir, filename, current_hash, content)
VerifyFile ==
    LET content == ContentOf(pure.v)
        r == verify_file(pure.st, pure.filename, calculate_file_hash(content),
                         content, PromptDir, pure.response, now)
    IN /\ pure.op = "prompt_in"
       /\ pure' = [pure EXCEPT !.op = "prompt_out", !.out = r.st, !.ok = r.ok]
       /\ UNCHANGED main

PromptNext == VerifyFile

PromptSpec == PromptInit /\ [][PromptNext]_vars

(***************************************************************************)
(* Two console runs on the same hub model at the same time.  Each run has  *)
(* answered its prompts and goes through the end of its workflow:          *)
(* save_run_metadata (load_metadata, then save_metadata) and, when every   *)
(* file was approved, update_model_hash (load_metadata, then               *)
(* save_metadata).  Nothing locks metadata.json, so the loads and saves of *)
(* the two processes interleave freely.                                    *)
(***************************************************************************)
RaceRuns == {"A", "B"}

RaceDir == get_hf_model_dir(RepoId, Revision)

\* the repository both runs look at
RaceFiles == [n \in PyNames |-> 1]

\* the session of a run: every *.py file of the repository, each approved
\* or rejected at its prompt
RaceSessions ==
    {build_session_files(HubFilesInfo(Siblings(RaceFiles), RaceFiles, {}), ok) :
        ok \in SUBSET PyNames}

\* all_verified of _verify_files_workflow
AllVerified(session) == \A i \in 1..Len(session) : session[i].approved

RaceInit ==
    /\ target = "hf"
    /\ localExists = TRUE
    /\ localFiles = [n \in PyNames |-> 1]
    /\ hubFiles = RaceFiles
    /\ hubRev = 1
    /\ store = EmptyStore
    /\ now = 1
    /\ result = NoResult
    /\ last = NoRun
    /\ approved = {}
    /\ pure \in {[op |-> "race", st |-> EmptyStore,
                   pc |-> [p \in RaceRuns |-> "save_run_metadata"],
                   loaded |-> [p \in RaceRuns |-> DefaultMetadata],
                   session |-> sessions] :
                    sessions \in [RaceRuns -> RaceSessions]}

\* save_run_metadata: existing = self.storage.load_metadata(model_dir)
RaceLoadRunMetadata(p) ==
    /\ pure.op = "race"
    /\ pure.pc[p] = "save_run_metadata"
    /\ pure' = [pure EXCEPT !.pc[p] = "save_run_metadata:save",
                            !.loaded[p] = load_metadata(pure.st, RaceDir)]
    /\ UNCHANGED main

\* save_run_metadata: self.storage.save_metadata(model_dir, new_meta); the
\* workflow returns all_verified and the caller promotes when it is true
RaceSaveRunMetadata(p) ==
    /\ pure.op = "race"
    /\ pure.pc[p] = "save_run_metadata:save"
    /\ pure' = [pure EXCEPT
          !.pc[p] = IF AllVerified(pure.session[p]) THEN "update_model_hash"
                    ELSE "done",
          !.st = save_metadata(pure.st, RaceDir,
                    compute_run_metadata(pure.loaded[p], pure.session[p], now))]
    /\ UNCHANGED main

\* update_model_hash: metadata = self.storage.load_metadata(model_dir)
RaceLoadModelHash(p) ==
    /\ pure.op = "race"
    /\ pure.pc[p] = "update_model_hash"
    /\ pure' = [pure EXCEPT !.pc[p] = "update_model_hash:save",
                            !.loaded[p] = load_metadata(pure.st, RaceDir)]
    /\ UNCHANGED main

\* update_model_hash: set model_hash and last_verified, save_metadata
RaceSaveModelHash(p) ==
    /\ pure.op = "race"
    /\ pure.pc[p] = "update_model_hash:save"
    /\ pure' = [pure EXCEPT
          !.pc[p] = "done",
          !.st = save_metadata(pure.st, RaceDir,
                    [pure.loaded[p] EXCEPT !.model_hash = Sha(hubRev),
                                           !.last_verified = now])]
    /\ UNCHANGED main

RaceNext ==
    \E p \in RaceRuns :
        \/ RaceLoadRunMetadata(p)
        \/ RaceSaveRunMetadata(p)
        \/ RaceLoadModelHash(p)
        \/ RaceSaveModelHash(p)

RaceSpec == RaceInit /\ [][RaceNext]_vars

(***************************************************************************)
(* Specification of the metadata compiler: a stored document and a session *)
(* are drawn, save_run_metadata is applied, the written document is loaded *)
(* and compiled once more with an empty session                            *)
(***************************************************************************)
\* the record of version v of a path, approved at time t
StoredRecord(path, v, status, t) ==
    [path |-> path, size |-> Len(ContentOf(v)),
     hash |-> calculate_file_hash(ContentOf(v)), status |-> status,
     verified_at |-> t]

\* the shapes of the "files" entry of a stored document: missing, a list
\* (empty, sorted or not, with and without items that are not "ok"), and
\* the legacy dict
FilesEntries ==
    {NoFiles,
     [kind |-> "list", items |-> <<>>],
     [kind |-> "list", items |-> <<StoredRecord("a.py", 1, "ok", 1)>>],
     [kind |-> "list", items |-> <<StoredRecord("b.py", 1, "ok", 1),
                                   StoredRecord("a.py", 1, "ng", 1)>>],
     [kind |-> "list", items |-> <<StoredRecord("b.py", 1, "ok", 1),
                                   StoredRecord("a.py", 1, "ok", 1)>>],
     [kind |-> "dict", items |-> <<StoredRecord("a.py", 1, "", 1)>>]}

\* the schema versions a stored document can carry (0: the key is missing)
SchemaVersions == {0, 1, 2}

\* the documents a run can find in metadata.json
StoredDocuments ==
    {[schema_version |-> sv,
      run_timestamp |-> IF sv = 0 THEN NoTime ELSE 1,
      model_hash |-> mh, last_verified |-> lv,
      overall_status |-> IF sv = 0 THEN "" ELSE "ok",
      summary |-> [total |-> 0, ok |-> 0, ng |-> 0],
      files |-> fe,
      approved_files |-> IF sv = 0 THEN [kind |-> "list", items |-> <<>>]
                         ELSE NoFiles] :
        sv \in SchemaVersions, mh \in {None, Sha(1)}, lv \in {NoTime, 1},
        fe \in FilesEntries}

\* a session naming the same file twice (validate_session_files, which
\* would refuse it, is not called by save_run_metadata)
RepeatedSessions ==
    {<<[filename |-> n, hash |-> calculate_file_hash(ContentOf(v1)),
        content |-> ContentOf(v1), approved |-> ok1],
       [filename |-> n, hash |-> calculate_file_hash(ContentOf(v2)),
        content |-> ContentOf(v2), approved |-> ok2]>> :
        n \in PyNames, v1 \in 1..MaxVersion, v2 \in 1..MaxVersion,
        ok1 \in BOOLEAN, ok2 \in BOOLEAN}

\* the sessions of a run: distinct files in any order, each approved or not
Sessions ==
    UNION {UNION {{[i \in 1..Len(order) |->
                     [filename |-> order[i],
                      hash |-> calculate_file_hash(ContentOf(ver[order[i]])),
                      content |-> ContentOf(ver[order[i]]),
                      approved |-> ok[order[i]]]] :
                    ver \in [S -> 1..MaxVersion], ok \in [S -> BOOLEAN]} :
                  order \in Perms(S)} :
           S \in SUBSET PyNames}

MetaInit ==
    /\ target = "hf"
    /\ localExists = TRUE
    /\ localFiles = [n \in PyNames |-> 1]
    /\ hubFiles = [n \in PyNames |-> 1]
    /\ hubRev = 1
    /\ store = EmptyStore
    /\ now = MaxClock
    /\ result = NoResult
    /\ last = NoRun
    /\ approved = {}
    /\ pure \in {[op |-> "meta_in", existing |-> e, session |-> sf,
                  valid |-> "", computed |-> DefaultMetadata,
                  out |-> DefaultMetadata, again |-> DefaultMetadata] :
                    e \in StoredDocuments, sf \in Sessions \cup RepeatedSessions}

\* Verify.save_run_metadata on a model directory holding the drawn document,
\* StorageManager.load_metadata of what it wrote, and compute_run_metadata
\* of that with an empty session
SaveRunMetadata ==
    LET model_dir == get_hf_model_dir(RepoId, Revision)
        st0 == save_metadata(EmptyStore, model_dir, pure.existing)
        st1 == save_run_metadata(st0, model_dir, pure.session, now)
        out == load_metadata(st1, model_dir)
    IN /\ pure.op = "meta_in"
       /\ pure' = [pure EXCEPT
             !.op = "meta_out",
             !.valid = validate_metadata_payload(pure.existing),
             !.computed = compute_run_metadata(load_metadata(st0, model_dir),
                                               pure.session, now),
             !.out = out,
             !.again = compute_run_metadata(out, <<>>, now + 1)]
       /\ UNCHANGED main

MetaNext == SaveRunMetadata

MetaSpec == MetaInit /\ [][MetaNext]_vars


(***************************************************************************)
(* Specification of StorageManager.save_metadata as the file system sees   *)
(* it: metadata.json holds a document; open(..., "w") empties the file,    *)
(* json.dump writes the new document chunk by chunk, the with-block closes *)
(* it.  The write can be interrupted between any two of these steps (the   *)
(* process is ended, the disk is full); load_metadata then reads the file. *)
(* A file is the document being written and the number of its chunks that  *)
(* reached the file.                                                       *)
(***************************************************************************)
\* the documents written to metadata.json by the runs of this specification
WrittenDocuments ==
    {d \in StoredDocuments :
        /\ d.schema_version = 1
        /\ d.files \in {[kind |-> "list", items |-> <<>>],
                        [kind |-> "list",
                         items |-> <<StoredRecord("a.py", 1, "ok", 1)>>]}}

\* a completely written metadata.json
WholeFile(doc) == [doc |-> doc, chunks |-> MaxChunks]

NotLoaded == [status |-> "", doc |-> DefaultMetadata]

WriteInit ==
    /\ target = "hf"
    /\ localExists = TRUE
    /\ localFiles = [n \in PyNames |-> 1]
    /\ hubFiles = [n \in PyNames |-> 1]
    /\ hubRev = 1
    /\ store = EmptyStore
    /\ now = MaxClock
    /\ result = NoResult
    /\ last = NoRun
    /\ approved = {}
    /\ pure \in {[op |-> "write_in", old |-> o, new |-> n,
                  file |-> WholeFile(o), loaded |-> NotLoaded] :
                    o \in WrittenDocuments, n \in WrittenDocuments}
    /\ pure.old # pure.new

\* open(metadata_file, "w"): the file is emptied
OpenForWrite ==
    /\ pure.op = "write_in"
    /\ pure' = [pure EXCEPT !.op = "writing",
                            !.file = [doc |-> pure.new, chunks |-> 0]]
    /\ UNCHANGED main

\* json.dump: one more chunk of the new document reaches the file
DumpChunk ==
    /\ pure.op = "writing"
    /\ pure.file.chunks < MaxChunks
    /\ pure' = [pure EXCEPT !.file.chunks = @ + 1]
    /\ UNCHANGED main

\* the with-block is left: the file is closed, save_metadata returns
CloseFile ==
    /\ pure.op = "writing"
    /\ pure.file.chunks = MaxChunks
    /\ pure' = [pure EXCEPT !.op = "saved"]
    /\ UNCHANGED main

\* the write is interrupted: before the file is opened, or after any number
\* of chunks
InterruptWrite ==
    /\ pure.op \in {"write_in", "writing"}
    /\ pure' = [pure EXCEPT !.op = "interrupted"]
    /\ UNCHANGED main

\* StorageManager.load_metadata of the file: json.load returns the document
\* of a whole file and raises JSONDecodeError on an empty or truncated one
LoadAfterWrite ==
    LET model_dir == get_hf_model_dir(RepoId, Revision)
    IN /\ pure.op \in {"interrupted", "saved"}
       /\ pure' = [pure EXCEPT
             !.op = "loaded",
             !.loaded = IF pure.file.chunks = MaxChunks
                        THEN [status |-> "ok",
                              doc |-> load_metadata(
                                        save_metadata(EmptyStore, model_dir,
                                                      pure.file.doc),
                                        model_dir)]
                        ELSE [status |-> "JSONDecodeError",
                              doc |-> DefaultMetadata]]
       /\ UNCHANGED main

WriteNext ==
    \/ OpenForWrite
    \/ DumpChunk
    \/ CloseFile
    \/ InterruptWrite
    \/ LoadAfterWrite

WriteSpec == WriteInit /\ [][WriteNext]_vars


(***************************************************************************)
(* Properties                                                              *)
(***************************************************************************)
\* the <<path, hash>> pairs of the records a metadata document holds
RecordsOf(metadata) ==
    {<<metadata.files.items[i].path, metadata.files.items[i].hash>> :
        i \in 1..Len(metadata.files.items)}

StoredRecords(st, model_dir) == RecordsOf(load_metadata(st, model_dir))

StoredModelHash(st, model_dir) == load_metadata(st, model_dir).model_hash

ConsoleOps == {"local_cli", "hf_cli"}

Rejected(run) == {e[1] : e \in {x \in run.session : ~x[3]}}

Accepted(run) == {e[1] : e \in {x \in run.session : x[3]}}

\* C1: every record (path, hash) of every model's stored approved-file list
\* is the (filename, hash) of a session file a human explicitly approved in
\* some run on that model; rejected or never presented files get no record.
C1_RecordsWereApproved ==
    \A d \in DOMAIN store.metadata :
        \A r \in RecordsOf(store.metadata[d]) : <<d, r[1], r[2]>> \in approved

\* a run that stored the approved file and left the rejected one without record
C1_Witness ==
    /\ last.op \in ConsoleOps \cup {"save"}
    /\ Accepted(last) # {}
    /\ Rejected(last) # {}
    /\ \E r \in StoredRecords(store, last.model_dir) : r[1] \in Accepted(last)
    /\ \A r \in StoredRecords(store, last.model_dir) : r[1] \notin Rejected(last)

\* C2: in a console run in which at least one pending file is rejected, the
\* stored model_hash is left as it was and the run returns False or exits
\* with status 1; a console run changes model_hash only when it rejected none.
C2_RejectionBlocksPromotion ==
    [][last'.op \in ConsoleOps =>
         /\ Rejected(last') # {} =>
              /\ StoredModelHash(store', last'.model_dir)
                   = StoredModelHash(store, last'.model_dir)
              /\ last'.ret \in {"False", "exit(1)"}
         /\ StoredModelHash(store', last'.model_dir)
              # StoredModelHash(store, last'.model_dir)
              => Rejected(last') = {}]_vars

\* a console run with a rejection on a model that was promoted before
C2_Witness ==
    /\ last.op \in ConsoleOps
    /\ Rejected(last) # {}
    /\ last.ret \in {"False", "exit(1)"}
    /\ StoredModelHash(store, last.model_dir) # None

\* C3: save_verification_results with a changed model hash and a strict
\* subset of the listed files approved does not change the stored model_hash.
C3_PartialSaveKeepsModelHash ==
    [][(/\ last'.op = "save"
        /\ last'.changed
        /\ Rejected(last') # {})
       => StoredModelHash(store', last'.model_dir)
            = StoredModelHash(store, last'.model_dir)]_vars

\* C4: two file sets that differ in a path or in a byte of a file have
\* different directory fingerprints.
C4_FingerprintSensitive ==
    (pure.op = "fp_out" /\ pure.a # pure.b) => pure.ha # pure.hb

\* C5: in the console run of a remote target, a failed download makes the
\* run return False without any prompt and without any trust-store write.
C5_DownloadFailureFailsClosed ==
    [][(/\ last'.op = "hf_cli"
        /\ last'.changed
        /\ last'.fetch_failed # {})
       => /\ last'.ret = "False"
          /\ last'.prompted = {}
          /\ last'.session = {}
          /\ store' = store]_vars

\* a remote console run with a failed download after an approved run
C5_Witness ==
    /\ last.op = "hf_cli"
    /\ last.fetch_failed # {}
    /\ last.ret = "False"
    /\ StoredRecords(store, last.model_dir) # {}

\* C6: when the retrieval of a candidate file failed while the interactive
\* result of a remote target was prepared, the run does not end as approved
\* and model_hash is not promoted.
C6_FetchFailureBlocksInteractiveApproval ==
    [][(/\ last'.op \in {"save", "hf_gui"}
        /\ last'.fetch_failed # {})
       => /\ last'.gui # "approved"
          /\ StoredModelHash(store', last'.model_dir)
               = StoredModelHash(store, last'.model_dir)]_vars

\* the hash of the stored record of a path; None when there is no record
RecordHash(st, model_dir, path) ==
    LET hs == {r[2] : r \in {x \in StoredRecords(st, model_dir) : x[1] = path}}
    IN IF hs = {} THEN None ELSE CHOOSE h \in hs : TRUE

\* C7: in the console workflow a candidate file is prompted, and gets a
\* session entry, exactly when the store has no record for its path or the
\* recorded hash differs from the candidate's hash.
C7_PromptedIffChanged ==
    [][(/\ last'.op \in ConsoleOps
        /\ last'.changed
        /\ last'.fetch_failed = {})
       => /\ \A c \in last'.candidates :
                c[1] \in last'.prompted
                  <=> RecordHash(store, last'.model_dir, c[1]) # c[2]
          /\ {e[1] : e \in last'.session} = last'.prompted]_vars

\* the model-level fingerprint differs, one file is carried forward and
\* another is prompted
C7_Witness ==
    /\ last.op \in ConsoleOps
    /\ last.changed
    /\ \E c \in last.candidates : c[1] \notin last.prompted
    /\ \E c \in last.candidates : c[1] \in last.prompted

\* the trust-store areas of the local target
LocalAreas(st) == {d \in DOMAIN st.metadata : d[1] = "local"}

\* C8: when a completed run approved a.py and b.py of the local target and
\* only a.py was edited since, the next console run prompts exactly a.py.
C8_OnlyEditedFilePending ==
    [][(/\ last'.op = "local_cli"
        /\ Present(localFiles) = PyNames
        /\ \E d \in LocalAreas(store) :
              /\ StoredModelHash(store, d) # None
              /\ RecordHash(store, d, "b.py")
                   = calculate_file_hash(ContentOf(localFiles["b.py"]))
              /\ RecordHash(store, d, "a.py")
                   \notin {None, calculate_file_hash(ContentOf(localFiles["a.py"]))})
       => last'.prompted = {"a.py"}]_vars

\* the identity fingerprint of the target of a console run
IdentityFingerprint ==
    IF target = "local"
    THEN IF localExists THEN calculate_directory_hash(DirOf(localFiles))
         ELSE <<"missing">>
    ELSE Sha(hubRev)

TargetDir ==
    IF target = "local" THEN get_local_model_dir(DirOf(localFiles))
    ELSE get_hf_model_dir(RepoId, Revision)

\* C9: a console run on a target whose identity fingerprint equals the
\* stored model_hash returns True, lists and downloads no candidate file,
\* prompts nothing and leaves every metadata document unchanged.
C9_UnchangedTargetShortCircuits ==
    [][(/\ last'.op \in ConsoleOps
        /\ StoredModelHash(store, TargetDir) = IdentityFingerprint)
       => /\ last'.ret = "True"
          /\ last'.candidates = {}
          /\ last'.downloads = 0
          /\ last'.prompted = {}
          /\ store'.metadata = store.metadata]_vars

\* a console run that found the stored model_hash equal to the fingerprint
C9_Witness ==
    /\ last.op \in ConsoleOps
    /\ ~last.changed
    /\ last.ret = "True"
    /\ StoredModelHash(store, last.model_dir) = IdentityFingerprint

\* C10: verify_hf_model(gui=True) on a target whose model hash changed
\* returns True exactly when the interactive verification reported approval.
C10_GuiOutcomeReturned ==
    (last.op = "hf_gui" /\ last.changed)
        => (last.ret = "True" <=> last.gui = "approved")

\* the stored records of a path: <<hash, size, verified_at>> of every item
\* of the model's metadata document with that path
RecordsAt(st, model_dir, path) ==
    LET items == load_metadata(st, model_dir).files.items
    IN {<<items[i].hash, items[i].size, items[i].verified_at>> :
          i \in {j \in 1..Len(items) : items[j].path = path}}

\* the stored content snapshot of a path; None when there is none
SnapshotAt(st, model_dir, path) ==
    IF <<model_dir, path>> \in DOMAIN st.snapshots
    THEN st.snapshots[<<model_dir, path>>]
    ELSE None

C12_MetadataWriteFailurePropagates ==
    [][(/\ last'.op \in ConsoleOps
        /\ last'.write_failed)
       => /\ last'.ret # "True"
          /\ StoredModelHash(store', last'.model_dir)
               = StoredModelHash(store, last'.model_dir)]_vars

\* C14: a console run whose process is ended at one of its prompts leaves
\* every metadata document and every file snapshot as before the run.
C14_NoWriteBeforeAllDecisions ==
    [][last'.op \in {"local_cli_killed", "hf_cli_killed"}
       => /\ store'.metadata = store.metadata
          /\ store'.snapshots = store.snapshots]_vars

\* C16: on a local target whose directory does not exist, verify_local_model
\* returns False (exit_on_reject False) or exits with status 1, and
\* Verify.verify_local_model raises FileNotFoundError; the trust store is
\* left exactly as it was.
C16_MissingDirectoryAborts ==
    [][(/\ last'.op \in {"local_cli", "prepare_local"}
        /\ ~localExists)
       => /\ store' = store
          /\ last'.op = "local_cli"
               => last'.ret = IF last'.exit_on_reject THEN "exit(1)" ELSE "False"
          /\ last'.op = "prepare_local"
               => /\ last'.ret = "FileNotFoundError"
                  /\ result' = result]_vars

\* verify_local_model returned False for a removed directory whose model had
\* been verified before
C16_Witness ==
    /\ last.op = "local_cli"
    /\ last.missing
    /\ last.ret = "False"
    /\ ~localExists
    /\ store.base

\* the session files of the metadata specification that were approved /
\* rejected
SessionApproved ==
    {pure.session[i].filename :
        i \in {j \in 1..Len(pure.session) : pure.session[j].approved}}

SessionRejected ==
    {pure.session[i].filename :
        i \in {j \in 1..Len(pure.session) : ~pure.session[j].approved}}

\* C15: a stored document whose schema_version is not 1 is rejected by
\* validate_metadata_payload with a ValidationError, and the run that found
\* it does not leave a schema_version 1 document in its place.
C15_UnsupportedSchemaRejected ==
    (pure.op = "meta_out" /\ pure.existing.schema_version # 1)
        => /\ pure.valid = "ValidationError"
           /\ pure.out.schema_version # 1

\* C17: the model_hash and last_verified of compute_run_metadata's output
\* are those of the existing metadata, whatever the session.
C17_CompilerKeepsPromotionState ==
    pure.op = "meta_out"
        => /\ pure.computed.model_hash = pure.existing.model_hash
           /\ pure.computed.last_verified = pure.existing.last_verified

\* a promoted document compiled with a session holding an approval
C17_Witness ==
    /\ pure.op = "meta_out"
    /\ pure.existing.model_hash # None
    /\ pure.existing.last_verified # NoTime
    /\ SessionApproved # {}
    /\ pure.computed.run_timestamp # pure.existing.last_verified

\* C18: the overall_status of a run is "ok" when no session file was
\* rejected (the empty session included) and "ng" otherwise.
C18_OverallStatusOkOrNg ==
    pure.op = "meta_out"
        => pure.computed.overall_status
             = IF SessionRejected = {} THEN "ok" ELSE "ng"

\* C19: the document persisted by save_run_metadata holds a list under the
\* key approved_files, with a record of matching path for every session
\* file that was approved.
C19_ApprovedFilesKeyHoldsRecords ==
    pure.op = "meta_out"
        => /\ pure.out.approved_files.kind = "list"
           /\ \A f \in SessionApproved :
                \E i \in 1..Len(pure.out.approved_files.items) :
                    pure.out.approved_files.items[i].path = f

\* C20: compute_run_metadata applied to its own output with an empty
\* session yields the same list of approved files: same paths, hashes,
\* sizes and verified_at values, in the same (path) order.
C20_CompilerRoundTrip ==
    pure.op = "meta_out" => pure.again.files = pure.computed.files

\* an unsorted stored list and a fresh approval compiled into two records
C20_Witness ==
    /\ pure.op = "meta_out"
    /\ Len(pure.computed.files.items) = 2
    /\ SessionApproved # {}
    /\ pure.existing.files.kind = "list"
    /\ pure.existing.files.items # <<>>
    /\ pure.again.files.items = pure.computed.files.items
    /\ pure.again.run_timestamp # pure.computed.run_timestamp

\* C13: whenever a save_metadata was interrupted or completed, the next
\* load_metadata returns the complete previous document or the complete new
\* one.
C13_SaveMetadataAtomic ==
    pure.op = "loaded"
        => /\ pure.loaded.status = "ok"
           /\ pure.loaded.doc \in {pure.old, pure.new}

\* the last approved entry of a path in the session of the metadata
\* specification, as a one-element sequence; <<>> when there is none
LastApproval(path) ==
    LET idx == {i \in 1..Len(pure.session) :
                  /\ pure.session[i].filename = path
                  /\ pure.session[i].approved}
    IN IF idx = {} THEN <<>>
       ELSE <<pure.session[CHOOSE i \in idx : \A j \in idx : j <= i]>>

\* C21: the list compute_run_metadata produces is strictly ascending by
\* path (so no path occurs twice), and the record of a path approved in the
\* session is the one of its latest approval: that hash, that size, the
\* run's timestamp.
C21_ListSortedLatestWins ==
    pure.op = "meta_out"
        => LET items == pure.computed.files.items
           IN /\ \A i \in 1..(Len(items) - 1) :
                    NameLess(items[i].path, items[i + 1].path)
              /\ \A p \in SessionApproved :
                    \E i \in 1..Len(items) :
                       /\ items[i].path = p
                       /\ items[i].hash = LastApproval(p)[1].hash
                       /\ items[i].size = Len(LastApproval(p)[1].content)
                       /\ items[i].verified_at = pure.computed.run_timestamp

\* a path with a stored record was approved twice in one session, with
\* different contents
C21_Witness ==
    /\ pure.op = "meta_out"
    /\ Len(pure.session) = 2
    /\ pure.session[1].filename = "a.py"
    /\ pure.session[2].filename = "a.py"
    /\ pure.session[1].approved
    /\ pure.session[2].approved
    /\ pure.session[1].hash # pure.session[2].hash
    /\ \E i \in 1..Len(pure.existing.files.items) :
          /\ pure.existing.files.items[i].path = "a.py"
          /\ pure.existing.files.items[i].status = "ok"
    /\ Len(pure.computed.files.items) = 2

\* the approved entries of the stored document of the metadata
\* specification: every entry of a legacy mapping, the "ok" items of a list
ExistingApproved ==
    LET items == pure.existing.files.items
    IN {items[i] : i \in {j \in 1..Len(items) :
                            \/ pure.existing.files.kind = "dict"
                            \/ /\ pure.existing.files.kind = "list"
                               /\ items[j].status = "ok"}}

\* C22: every approved entry of the existing metadata, stored as a mapping
\* or as a list, whose path the session does not approve again is in
\* compute_run_metadata's output with its path, hash, size and verified_at.
C22_MigrationLossless ==
    pure.op = "meta_out"
        => \A e \in ExistingApproved :
              e.path \notin SessionApproved
                => \E i \in 1..Len(pure.computed.files.items) :
                      LET it == pure.computed.files.items[i]
                      IN /\ it.path = e.path
                         /\ it.hash = e.hash
                         /\ it.size = e.size
                         /\ it.verified_at = e.verified_at

\* a legacy mapping with a record of a.py compiled with a session that
\* approves only b.py
C22_Witness ==
    /\ pure.op = "meta_out"
    /\ pure.existing.files.kind = "dict"
    /\ SessionApproved = {"b.py"}
    /\ Len(pure.computed.files.items) = 2
    /\ pure.computed.files.items[1].verified_at # pure.computed.run_timestamp

\* C23: the fingerprint of a directory is the same under every order in
\* which its matching files are enumerated, and the fingerprint of a
\* directory without matching files is the SHA-256 of the empty input.
C23_FingerprintOrderInvariant ==
    pure.op = "order_out"
        => /\ pure.h1 = pure.h2
           /\ DOMAIN pure.dir = {} => pure.h1 = Sha256(<<>>)

\* two files with different bytes, enumerated in the two opposite orders
C23_Witness ==
    /\ pure.op = "order_out"
    /\ DOMAIN pure.dir = PyNames
    /\ pure.e1 # pure.e2
    /\ pure.dir["a.py"] # pure.dir["b.py"]
    /\ pure.h1 = pure.h2

\* file set b is file set a with the bytes of one file changed
OneFileChanged(a, b) ==
    /\ DOMAIN a = DOMAIN b
    /\ \E n \in DOMAIN a :
          /\ a[n] # b[n]
          /\ \A k \in DOMAIN a \ {n} : a[k] = b[k]

\* file set b is file set a with one file added
OneFileAdded(a, b) ==
    /\ \E n \in DOMAIN b : DOMAIN b = DOMAIN a \cup {n} /\ n \notin DOMAIN a
    /\ \A k \in DOMAIN a : a[k] = b[k]

RegisteredEntry(ts) ==
    [type |-> target, last_verified |-> ts, status |-> "verified",
     original_path |-> IF target = "local" THEN LocalPath ELSE ""]

\* C25: a step that registers a model sets exactly one registry entry, under
\* the key made of the model's type followed by its id, to the type, the
\* time of the run, status "verified" and (local models) original_path; every
\* other entry keeps its value, and registering a key that is already there
\* replaces its entry without adding a second one.
C25_RegisterUpsertsOneEntry ==
    [][(store'.registry # store.registry /\ last'.op # "delete") =>
        \E k \in DOMAIN store'.registry :
            /\ DOMAIN store'.registry = DOMAIN store.registry \cup {k}
            /\ \A j \in DOMAIN store.registry \ {k} :
                   store'.registry[j] = store.registry[j]
            /\ store'.registry[k] = RegisteredEntry(now)
            /\ Head(k) = target
            /\ k \in {get_model_key("hf", Tail(get_hf_model_dir(RepoId, Revision)))}
                     \cup {get_model_key("local", Tail(d)) : d \in LocalAreas(store')}]_vars

\* two local models are registered side by side
C25_Witness ==
    /\ Cardinality(DOMAIN store.registry) = 2
    /\ \A k \in DOMAIN store.registry : store.registry[k].status = "verified"
    /\ \E j, k \in DOMAIN store.registry :
           store.registry[j].last_verified < store.registry[k].last_verified

C27_PromptDefaultDeny ==
    pure.op = "prompt_out" =>
        /\ pure.ok <=> pure.response \in {"y", "Y", "yes", "Yes", "yEs", "yeS",
                                           "YEs", "YeS", "yES", "YES"}
        /\ pure.ok =>
              /\ <<PromptDir, pure.filename>> \in DOMAIN pure.out.snapshots
              /\ pure.out.snapshots[<<PromptDir, pure.filename>>] = ContentOf(pure.v)
        /\ ~pure.ok => pure.out = pure.st

\* the operator pressed Enter at the prompt for a new version of an approved
\* file: rejected, nothing stored
C27_Witness ==
    /\ pure.op = "prompt_out"
    /\ pure.response = ""
    /\ pure.filename = "a.py"
    /\ pure.st # EmptyStore
    /\ pure.v # 1
    /\ ~pure.ok
    /\ pure.out = pure.st

\* C28: when the "Complete Verification" button is clicked the handler sets
\* completion_requested; it sets verification_result to True, reports
\* success and saves (records for the listed files, model_hash promoted)
\* exactly when at least one file is listed and every listed file is
\* checked; otherwise it reports failure and the trust store is left as it
\* was.  On an empty list it fails whatever is checked.
C28_CompletionHandlerAllOrNothing ==
    [][/\ (last'.op = "hf_gui" /\ last'.clicked =>
            LET listed == {c[1] : c \in last'.candidates}
                all_checked == listed # {} /\ Accepted(last') = listed
            IN /\ last'.completion_requested
               /\ last'.verification_result <=> all_checked
               /\ last'.gui = IF all_checked THEN "approved" ELSE "rejected"
               /\ ~all_checked => store' = store
               /\ all_checked =>
                     /\ StoredModelHash(store', last'.model_dir) = last'.new_hash
                     /\ \A c \in last'.candidates :
                            RecordHash(store', last'.model_dir, c[1]) = c[2])
       /\ \A checked \in SUBSET PyNames :
            LET h == complete_verification_simple(store, result, <<>>, checked,
                                                  DirOf(localFiles), now)
            IN /\ h.st = store
               /\ ~h.gui_state.verification_result
               /\ h.gui_state.completion_requested]_vars

\* the button was clicked with one of two listed files left unchecked: the
\* run failed and stored nothing
C28_Witness ==
    /\ last.op = "hf_gui"
    /\ last.clicked
    /\ Cardinality(last.candidates) = 2
    /\ Cardinality(Accepted(last)) = 1
    /\ last.completion_requested
    /\ ~last.verification_result
    /\ store = EmptyStore

\* C29: the files_info of a result prepared for the interactive surface
\* lists only files whose hash differs from, or is absent in, the stored
\* record of their path: no listed file has a stored record of its hash.
C29_PreparedResultListsOnlyPending ==
    [][last'.op \in {"prepare_local", "prepare_hf", "hf_gui"} =>
         \A c \in last'.candidates :
             RecordHash(store, last'.model_dir, c[1]) # c[2]]_vars

\* C30: when two runs on the same model interleave their loads and saves of
\* metadata.json and both have finished, every file approved in either run
\* has its record in the stored approved-file list, and a run that promoted
\* model_hash finds a record there for every file it approved.
C30_NoApprovalLostUnderInterleaving ==
    (pure.op = "race" /\ \A p \in RaceRuns : pure.pc[p] = "done") =>
        /\ \A p \in RaceRuns : \A i \in 1..Len(pure.session[p]) :
              pure.session[p][i].approved =>
                  <<pure.session[p][i].filename, pure.session[p][i].hash>>
                      \in StoredRecords(pure.st, RaceDir)
        /\ StoredModelHash(pure.st, RaceDir) # None =>
              \A p \in RaceRuns : AllVerified(pure.session[p]) =>
                  \A i \in 1..Len(pure.session[p]) :
                      <<pure.session[p][i].filename, pure.session[p][i].hash>>
                          \in StoredRecords(pure.st, RaceDir)

====
